---- MODULE Spec2Model ----
(***************************************************************************)
(* A model of the static_assert_generic procedural macros (src/src/lib.rs) *)
(* and of the build of one macro invocation.                               *)
(*                                                                         *)
(* One behaviour is one build: a macro invocation is parsed from its       *)
(* token stream (Generic::parse, StaticAssertInput::parse,                 *)
(* ExplicitlyDropInput::parse), expanded into a carrier type with one      *)
(* associated constant (static_assert, explicitly_drop), the emitted item  *)
(* is checked by the host compiler in the enclosing generic scope, and     *)
(* the enclosing item is then instantiated, which evaluates the carrier's  *)
(* constant once per distinct substitution of the carrier's parameters.    *)
(*                                                                         *)
(* The macro's input is read lazily: every parsing step draws the tokens   *)
(* it looks at. A descriptor list is a sequence of comma-separated items;  *)
(* an item is the run of tokens up to the next top-level comma (or the     *)
(* end of the list).                                                       *)
(*                                                                         *)
(* Spec is the build of one invocation; SpecSeveral is the build of an     *)
(* item that holds several static_assert invocations.                      *)
(***************************************************************************)
EXTENDS Integers, Sequences, FiniteSets, TLC

(***************************************************************************)
(* Bounds of the model.                                                    *)
(***************************************************************************)
\* Most descriptors one descriptor list is read to.
MaxGenerics == 2
\* Most tokens between two commas of a descriptor list.
MaxItemLen == 4
\* Most instantiations of the enclosing item in one build.
MaxInsts == 2
\* Most static_assert invocations in one enclosing item.
MaxInvocations == 2

(***************************************************************************)
(* Tokens.                                                                 *)
(***************************************************************************)
\* Identifier tokens. syn::Ident accepts each of them, and each of them
\* alone is a path that syn::Type accepts.
IdentToks == {"N", "M", "T", "usize"}

\* The tokens an item of a descriptor list is made of. The comma separates
\* items and `=>` introduces the message: neither is part of an item.
ItemToks == IdentToks \cup {":", "?", "const"}

Items == UNION {[1..n -> ItemToks] : n \in 0..MaxItemLen}

\* What follows an item in the input: a comma, or the end of the list.
Follows == {"comma", "end"}

(***************************************************************************)
(* enum Generic                                                            *)
(***************************************************************************)
TypeGeneric(i) == [kind |-> "Type", ident |-> i, ty |-> "-"]

UnsizedTypeGeneric(i) == [kind |-> "UnsizedType", ident |-> i, ty |-> "-"]

ConstGeneric(i, t) == [kind |-> "Const", ident |-> i, ty |-> t]

Generic == {TypeGeneric(i) : i \in IdentToks}
           \cup {UnsizedTypeGeneric(i) : i \in IdentToks}
           \cup {ConstGeneric(i, t) : i \in IdentToks, t \in IdentToks}

NoGeneric == [kind |-> "-", ident |-> "-", ty |-> "-"]

(***************************************************************************)
(* impl Parse for Generic. The result is Ok(generic) with the tokens the   *)
(* parser left unread, or Err(diagnostic) with the input from the token    *)
(* the error is reported at.                                               *)
(***************************************************************************)
ParseOk(g, rest) == [ok |-> TRUE, generic |-> g, rest |-> rest, err |-> "-"]

ParseErr(d, at) == [ok |-> FALSE, generic |-> NoGeneric, rest |-> at, err |-> d]

\* input.parse::<Token>().is_ok(): the next token is tok (and is consumed).
Peek(s, tok) == s # <<>> /\ s[1] = tok

\* input.parse::<syn::Ident>(): keywords and punctuation are no identifier.
PeekIdent(s) == s # <<>> /\ s[1] \in IdentToks

\* input.parse::<syn::Type>(): a path of one identifier.
PeekType(s) == s # <<>> /\ s[1] \in IdentToks

\* Generic::parse without the check for `?` after the colon.
GenericParseNoUnsizedCheck(s) ==
    IF PeekIdent(s)
    THEN LET ident == s[1]
             afterIdent == Tail(s)
         IN  IF Peek(afterIdent, ":")
             THEN LET afterColon == Tail(afterIdent)
                  IN  IF PeekType(afterColon)
                      THEN ParseOk(ConstGeneric(ident, afterColon[1]),
                                   Tail(afterColon))
                      ELSE ParseErr("expected_type", afterColon)
             ELSE IF Peek(afterIdent, "?")
                  THEN ParseOk(UnsizedTypeGeneric(ident), Tail(afterIdent))
                  ELSE ParseOk(TypeGeneric(ident), afterIdent)
    ELSE IF Peek(s, "const")
         THEN ParseErr("const_keyword", s)
         ELSE ParseErr("expected_identifier", s)

GenericParse(s) ==
    IF PeekIdent(s)
    THEN LET ident == s[1]
             afterIdent == Tail(s)
         IN  IF Peek(afterIdent, ":")
             THEN LET afterColon == Tail(afterIdent)
                  IN  IF Peek(afterColon, "?")
                      THEN ParseErr("unsized_syntax", afterColon)
                      ELSE IF PeekType(afterColon)
                           THEN ParseOk(ConstGeneric(ident, afterColon[1]),
                                        Tail(afterColon))
                           ELSE ParseErr("expected_type", afterColon)
             ELSE IF Peek(afterIdent, "?")
                  THEN ParseOk(UnsizedTypeGeneric(ident), Tail(afterIdent))
                  ELSE ParseOk(TypeGeneric(ident), afterIdent)
    ELSE IF Peek(s, "const")
         THEN ParseErr("const_keyword", s)
         ELSE ParseErr("expected_identifier", s)

\* Parsing stops at the first token that does not fit, so the tokens after
\* it have no effect: the items drawn are those the parser reads to the end,
\* or to the one token it stops at.
ReadItems == {s \in Items : Len(GenericParse(s).rest) <= 1}

(***************************************************************************)
(* impl Generic: the three renderers, as the token streams quote! builds.  *)
(***************************************************************************)
\* definition that renders an unsized type parameter without its bound.
definitionWithoutBound(g) ==
    CASE g.kind = "Type" -> <<g.ident, ",">>
      [] g.kind = "UnsizedType" -> <<g.ident, ",">>
      [] g.kind = "Const" -> <<"const", g.ident, ":", g.ty, ",">>

definition(g) ==
    CASE g.kind = "Type" -> <<g.ident, ",">>
      [] g.kind = "UnsizedType" -> <<g.ident, ":", "?", "Sized", ",">>
      [] g.kind = "Const" -> <<"const", g.ident, ":", g.ty, ",">>

placement(g) == <<g.ident, ",">>

\* Option<TokenStream>.
None == [some |-> FALSE, toks |-> <<>>]

Some(toks) == [some |-> TRUE, toks |-> toks]

\* placement_type that gives a marker to no sized type parameter.
placement_typeUnsizedOnly(g) ==
    CASE g.kind = "Type" -> None
      [] g.kind = "UnsizedType" -> Some(placement(g))
      [] g.kind = "Const" -> None

placement_type(g) ==
    CASE g.kind = "Type" -> Some(placement(g))
      [] g.kind = "UnsizedType" -> Some(placement(g))
      [] g.kind = "Const" -> None

(***************************************************************************)
(* The three collections static_assert renders from the descriptors:      *)
(* map(..).collect() into one token stream, filter_map(..).collect() into  *)
(* a vector of token streams.                                              *)
(***************************************************************************)
RECURSIVE generic_definitions(_)
generic_definitions(gs) ==
    IF gs = <<>> THEN <<>>
    ELSE definition(Head(gs)) \o generic_definitions(Tail(gs))

RECURSIVE generic_placement(_)
generic_placement(gs) ==
    IF gs = <<>> THEN <<>>
    ELSE placement(Head(gs)) \o generic_placement(Tail(gs))

RECURSIVE generic_placement_types(_)
generic_placement_types(gs) ==
    IF gs = <<>> THEN <<>>
    ELSE LET t == placement_type(Head(gs))
         IN  (IF t.some THEN <<t.toks>> ELSE <<>>)
             \o generic_placement_types(Tail(gs))

(***************************************************************************)
(* The expression and the message of a request. Both are opaque to the     *)
(* macros: an expression is kept as written, a message is the token stream *)
(* after `=>`.                                                             *)
(***************************************************************************)
Exprs == {"1 + 2 < 17", "45 * 25 < 3", "N != 0", "N > M",
          "size_of::<T>() == 4"}

\* input.parse::<syn::Expr>() fails when no expression follows the list.
MissingExpr == "<missing>"

\* String literals a message is written as.
Literals == {"This is the error message!", "N must be greater than M!"}

\* What may follow the expression (or the descriptor of explicitly_drop):
\* nothing, or `=>` and the rest of the input, here one string literal.
Messages == {None} \cup {Some(<<l>>) : l \in Literals}

(***************************************************************************)
(* The code a macro emits.                                                 *)
(***************************************************************************)
NoCode == [form |-> "-", struct_params |-> <<>>, fields |-> <<>>,
           impl_params |-> <<>>, impl_args |-> <<>>, const_name |-> "-",
           guard |-> None, panic_args |-> <<>>, use_args |-> <<>>]

\* static_assert with the guard written without its negation.
StaticAssertCodeNoNegation(gs, expr, msg) ==
    [form |-> "block",
     struct_params |-> generic_definitions(gs),
     fields |-> generic_placement_types(gs),
     impl_params |-> generic_definitions(gs),
     impl_args |-> generic_placement(gs),
     const_name |-> "CHECK",
     guard |-> Some(<<"", expr>>),
     panic_args |-> msg.toks,
     use_args |-> generic_placement(gs)]

\* static_assert that emits the carrier without the braces around it: the
\* struct and the impl are items of the enclosing body.
StaticAssertCodeUnscoped(gs, expr, msg) ==
    [form |-> "items",
     struct_params |-> generic_definitions(gs),
     fields |-> generic_placement_types(gs),
     impl_params |-> generic_definitions(gs),
     impl_args |-> generic_placement(gs),
     const_name |-> "CHECK",
     guard |-> Some(<<"!", expr>>),
     panic_args |-> msg.toks,
     use_args |-> generic_placement(gs)]

\* static_assert that panics with a fixed literal whatever the message.
StaticAssertCodeFixedMessage(gs, expr, msg) ==
    [form |-> "block",
     struct_params |-> generic_definitions(gs),
     fields |-> generic_placement_types(gs),
     impl_params |-> generic_definitions(gs),
     impl_args |-> generic_placement(gs),
     const_name |-> "CHECK",
     guard |-> Some(<<"!", expr>>),
     panic_args |-> <<"Static assert failed.">>,
     use_args |-> generic_placement(gs)]

\* quote! of static_assert: `_ = { struct Assert<..>(..); impl<..> Assert<..>
\* { const CHECK: () = if !(expr) { panic!(msg) }; } Assert::<..>::CHECK }`.
\* An absent message interpolates as no tokens.
StaticAssertCode(gs, expr, msg) ==
    [form |-> "block",
     struct_params |-> generic_definitions(gs),
     fields |-> generic_placement_types(gs),
     impl_params |-> generic_definitions(gs),
     impl_args |-> generic_placement(gs),
     const_name |-> "CHECK",
     guard |-> Some(<<"!", expr>>),
     panic_args |-> msg.toks,
     use_args |-> generic_placement(gs)]

\* explicitly_drop that emits the block free-standing, not in a destructor.
ExplicitlyDropCodeFreeStanding(g, msg) ==
    [form |-> "block",
     struct_params |-> definition(g),
     fields |-> (IF placement_type(g).some THEN <<placement_type(g).toks>>
                 ELSE <<>>),
     impl_params |-> definition(g),
     impl_args |-> placement(g),
     const_name |-> "MANUAL_DROP",
     guard |-> None,
     panic_args |-> msg.toks,
     use_args |-> placement(g)]

\* quote! of explicitly_drop: `fn drop(&mut self) { _ = { struct Assert<..>..;
\* impl<..> Assert<..> { const MANUAL_DROP: () = panic!(msg); }
\* Assert::<..>::MANUAL_DROP }; }`.
ExplicitlyDropCode(g, msg) ==
    [form |-> "drop",
     struct_params |-> definition(g),
     fields |-> (IF placement_type(g).some THEN <<placement_type(g).toks>>
                 ELSE <<>>),
     impl_params |-> definition(g),
     impl_args |-> placement(g),
     const_name |-> "MANUAL_DROP",
     guard |-> None,
     panic_args |-> msg.toks,
     use_args |-> placement(g)]

(***************************************************************************)
(* State of one build.                                                     *)
(***************************************************************************)
VARIABLES
    entry,       \* the macro invoked: "static_assert" or "explicitly_drop"
    pc,          \* "parsing", "parse_error", "expanded", "host_error", "checked"
    generics,    \* the descriptors parsed so far (Vec<Generic>)
    expression,  \* the parsed expression
    message,     \* the parsed Option<TokenStream>
    lastItem,    \* the tokens read last, up to the one an error is reported at
    diag,        \* the diagnostic of a parse error
    code,        \* the emitted code
    scope,       \* the generic scope the macro is invoked in
    hostErrs,    \* the errors of the host compiler on the emitted item
    insts,       \* the substitutions the enclosing item is instantiated with
    dropped,     \* the instantiations whose destructor is reached
    consts,      \* the evaluated constants: [args, value]
    body         \* the invocations expanded earlier in the same enclosing item

Entries == {"static_assert", "explicitly_drop"}

hostVars == <<scope, hostErrs, insts, dropped, consts, body>>

vars == <<entry, pc, generics, expression, message, lastItem, diag, code,
          scope, hostErrs, insts, dropped, consts, body>>

\* syn::Result::Err(..): no request is built, nothing is emitted but the
\* compile_error of the diagnostic.
Fail(d, item) ==
    /\ pc' = "parse_error"
    /\ diag' = d
    /\ lastItem' = item
    /\ generics' = <<>>
    /\ UNCHANGED <<entry, expression, message, code, hostVars>>

\* A descriptor list parser that rejects an identifier it has read before.
ParseListItemRejectDuplicate ==
    /\ entry = "static_assert"
    /\ pc = "parsing"
    /\ Len(generics) < MaxGenerics
    /\ \E item \in ReadItems, follow \in Follows :
          /\ item = <<>> => follow = "comma"
          /\ LET r == GenericParse(item)
             IN  IF ~r.ok THEN Fail(r.err, item)
                 ELSE IF r.rest # <<>> THEN Fail("expected_comma", item)
                 ELSE IF \E k \in DOMAIN generics :
                            generics[k].ident = r.generic.ident
                      THEN Fail("duplicate_identifier", item)
                 ELSE /\ generics' = Append(generics, r.generic)
                      /\ lastItem' = item
                      /\ pc' = IF follow = "end" THEN "list_end" ELSE "parsing"
                      /\ UNCHANGED <<entry, expression, message, diag, code,
                                     hostVars>>

(***************************************************************************)
(* StaticAssertInput::parse, the descriptor list: parse_terminated reads   *)
(* a descriptor while the parenthesized input is not empty, and a comma    *)
(* after it while it is not empty.                                          *)
(***************************************************************************)
ParseListItem ==
    /\ entry = "static_assert"
    /\ pc = "parsing"
    /\ Len(generics) < MaxGenerics
    /\ \E item \in ReadItems, follow \in Follows :
          /\ item = <<>> => follow = "comma"
          /\ LET r == GenericParse(item)
             IN  IF ~r.ok THEN Fail(r.err, item)
                 ELSE IF r.rest # <<>> THEN Fail("expected_comma", item)
                 ELSE /\ generics' = Append(generics, r.generic)
                      /\ lastItem' = item
                      /\ pc' = IF follow = "end" THEN "list_end" ELSE "parsing"
                      /\ UNCHANGED <<entry, expression, message, diag, code,
                                     hostVars>>

\* The parenthesized input is empty: the list is complete.
ParseListEnd ==
    /\ entry = "static_assert"
    /\ pc = "parsing"
    /\ pc' = "list_end"
    /\ UNCHANGED <<entry, generics, expression, message, lastItem, diag, code,
                   hostVars>>

(***************************************************************************)
(* static_assert, from the expression on: the rest of                      *)
(* StaticAssertInput::parse and the expansion.                             *)
(***************************************************************************)
StaticAssertExpand ==
    /\ entry = "static_assert"
    /\ pc = "list_end"
    /\ \E expr \in Exprs \cup {MissingExpr}, msg \in Messages :
          IF expr = MissingExpr THEN Fail("expected_expression", lastItem)
          ELSE /\ expression' = expr
               /\ message' = msg
               /\ code' = StaticAssertCode(generics, expr, msg)
               /\ pc' = "expanded"
               /\ UNCHANGED <<entry, generics, lastItem, diag, hostVars>>

\* explicitly_drop that does not reject the input left after the descriptor.
ExplicitlyDropIgnoringRest ==
    /\ entry = "explicitly_drop"
    /\ pc = "parsing"
    /\ \E item \in ReadItems, follow \in Follows, msg \in Messages :
          LET r == GenericParse(item)
          IN  IF ~r.ok THEN Fail(r.err, item)
              ELSE /\ generics' = <<r.generic>>
                   /\ message' = msg
                   /\ lastItem' = IF r.rest = <<>> /\ follow = "comma"
                                  THEN Append(item, ",") ELSE item
                   /\ code' = ExplicitlyDropCode(r.generic, msg)
                   /\ pc' = "expanded"
                   /\ UNCHANGED <<entry, expression, diag, hostVars>>

(***************************************************************************)
(* explicitly_drop: ExplicitlyDropInput::parse reads one descriptor and    *)
(* the optional message; parse_macro_input! rejects input left unread.     *)
(***************************************************************************)
ExplicitlyDrop ==
    /\ entry = "explicitly_drop"
    /\ pc = "parsing"
    /\ \E item \in ReadItems, follow \in Follows, msg \in Messages :
          LET r == GenericParse(item)
          IN  IF ~r.ok THEN Fail(r.err, item)
              ELSE IF r.rest # <<>> THEN Fail("unexpected_token", item)
              ELSE IF follow = "comma"
                   THEN Fail("unexpected_token", Append(item, ","))
              ELSE /\ generics' = <<r.generic>>
                   /\ message' = msg
                   /\ lastItem' = item
                   /\ code' = ExplicitlyDropCode(r.generic, msg)
                   /\ pc' = "expanded"
                   /\ UNCHANGED <<entry, expression, diag, hostVars>>

(***************************************************************************)
(* The host compiler, as far as the crate relies on it (crate-level        *)
(* documentation of lib.rs): how it reads the emitted carrier, which       *)
(* carriers it rejects before any constant is evaluated, and how it        *)
(* evaluates the carrier's constant.                                       *)
(***************************************************************************)
\* A generic parameter list, read back from its tokens:
\* `name ,`, `name : ? Sized ,` or `const name : type ,`.
RECURSIVE HostParams(_)
HostParams(toks) ==
    IF toks = <<>> THEN <<>>
    ELSE IF toks[1] = "const"
         THEN <<[name |-> toks[2], kind |-> "const", ty |-> toks[4]]>>
              \o HostParams(SubSeq(toks, 6, Len(toks)))
         ELSE IF toks[2] = ":"
              THEN <<[name |-> toks[1], kind |-> "unsized", ty |-> "-"]>>
                   \o HostParams(SubSeq(toks, 6, Len(toks)))
              ELSE <<[name |-> toks[1], kind |-> "type", ty |-> "-"]>>
                   \o HostParams(SubSeq(toks, 3, Len(toks)))

\* A generic argument list, read back from its tokens: `name ,` repeated.
RECURSIVE HostArgs(_)
HostArgs(toks) ==
    IF toks = <<>> THEN <<>>
    ELSE <<toks[1]>> \o HostArgs(SubSeq(toks, 3, Len(toks)))

Names(params) == {params[k].name : k \in DOMAIN params}

\* The generic scopes a macro is invoked in: a non-generic item,
\* `<const N: usize, const M: usize, T>`, and the same with `T: ?Sized`.
Scopes == {"none", "sized", "unsized"}

ScopeParams(sc) ==
    CASE sc = "none" -> <<>>
      [] sc = "sized" ->
            <<[name |-> "N", kind |-> "const", ty |-> "usize"],
              [name |-> "M", kind |-> "const", ty |-> "usize"],
              [name |-> "T", kind |-> "type", ty |-> "-"]>>
      [] sc = "unsized" ->
            <<[name |-> "N", kind |-> "const", ty |-> "usize"],
              [name |-> "M", kind |-> "const", ty |-> "usize"],
              [name |-> "T", kind |-> "unsized", ty |-> "-"]>>

\* Type names that resolve outside every generic scope, all of them sized.
PrimitiveTypes == {"usize"}

\* What the expressions of Exprs mention: constants as values, types as
\* the argument of size_of.
ValueRefs(e) ==
    CASE e = "N != 0" -> {"N"}
      [] e = "N > M" -> {"N", "M"}
      [] OTHER -> {}

SizedTypeRefs(e) ==
    CASE e = "size_of::<T>() == 4" -> {"T"}
      [] OTHER -> {}

\* A host in which the items of a block see the generics around the block.
OuterGenericRefsAllowed(c) == {}

\* The parameters the guard mentions that the impl does not declare in the
\* kind they are used as: an item sees no generic parameter of the scope
\* around it.
OuterGenericRefs(c) ==
    IF c.guard.some
    THEN LET ip == HostParams(c.impl_params)
             Is(n, kind) == \E k \in DOMAIN ip :
                               ip[k].name = n /\ ip[k].kind = kind
         IN  {n \in ValueRefs(c.guard.toks[2]) : ~Is(n, "const")}
             \cup {n \in SizedTypeRefs(c.guard.toks[2]) : ~Is(n, "type")}
    ELSE {}

\* The errors of the host on the emitted item, invoked in scope sc. No
\* constant is evaluated for an item with an error.
HostErrors(c, sc) ==
    LET sp == HostParams(c.struct_params)
        ip == HostParams(c.impl_params)
        ia == HostArgs(c.impl_args)
        ua == HostArgs(c.use_args)
        used == UNION {{HostArgs(c.fields[k])[j] :
                            j \in DOMAIN HostArgs(c.fields[k])} :
                       k \in DOMAIN c.fields}
        outer == ScopeParams(sc)
        TypeLike(p) == p.kind \in {"type", "unsized"}
        \* the parameters of env named n
        Named(env, n) == {env[k] : k \in {j \in DOMAIN env : env[j].name = n}}
        \* argument a, resolved in env, fits parameter p
        Fits(a, env, p) ==
            IF p.kind = "const"
            THEN \E q \in Named(env, a) : q.kind = "const" /\ q.ty = p.ty
            ELSE \/ \E q \in Named(env, a) :
                        /\ TypeLike(q)
                        /\ p.kind = "type" => q.kind = "type"
                 \/ Named(env, a) = {} /\ a \in PrimitiveTypes
        \* a names a type, but one that may be unsized where p is sized
        Unsized(a, env, p) ==
            /\ p.kind = "type"
            /\ \E q \in Named(env, a) : q.kind = "unsized"
    IN  \* the same name declared twice
        (IF \E j, k \in DOMAIN sp : j # k /\ sp[j].name = sp[k].name
         THEN {"duplicate_parameter"} ELSE {})
        \cup
        \* a const parameter whose type is not a primitive integer type
        (IF \E k \in DOMAIN sp :
               /\ sp[k].kind = "const"
               /\ sp[k].ty \notin PrimitiveTypes \/ sp[k].ty \in Names(sp)
         THEN {"const_parameter_type"} ELSE {})
        \cup
        \* a type parameter of the struct that no field mentions
        (IF \E k \in DOMAIN sp : TypeLike(sp[k]) /\ sp[k].name \notin used
         THEN {"unused_parameter"} ELSE {})
        \cup
        \* impl<..> Assert<..> and Assert::<..>: one argument per parameter
        (IF Len(ia) # Len(sp) \/ Len(ua) # Len(sp)
         THEN {"wrong_number_of_arguments"} ELSE {})
        \cup
        (IF \E k \in DOMAIN sp \cap DOMAIN ia :
               ~Fits(ia[k], ip, sp[k]) /\ ~Unsized(ia[k], ip, sp[k])
         THEN {"impl_argument"} ELSE {})
        \cup
        (IF \E k \in DOMAIN sp \cap DOMAIN ia : Unsized(ia[k], ip, sp[k])
         THEN {"impl_size_unknown"} ELSE {})
        \cup
        \* the expression sees the parameters of the impl and nothing of
        \* the enclosing scope
        (IF OuterGenericRefs(c) # {}
         THEN {"outer_generic_parameter"} ELSE {})
        \cup
        \* the use Assert::<..>::CONST, resolved in the enclosing scope
        (IF \E k \in DOMAIN sp \cap DOMAIN ua :
               ~Fits(ua[k], outer, sp[k]) /\ ~Unsized(ua[k], outer, sp[k])
         THEN {"use_argument"} ELSE {})
        \cup
        (IF \E k \in DOMAIN sp \cap DOMAIN ua : Unsized(ua[k], outer, sp[k])
         THEN {"trait_bounds_not_satisfied"} ELSE {})

(***************************************************************************)
(* Instantiations of the enclosing item and constant evaluation.           *)
(***************************************************************************)
\* The arguments the enclosing item is instantiated with: the values of
\* its const parameters and the types of its type parameter.
ConstArgs == {0, 1}

SizedTypes == {"u8", "u32"}

AllTypes == SizedTypes \cup {"str"}

SizeOf(t) ==
    CASE t = "u8" -> 1
      [] t = "u32" -> 4
      [] t = "usize" -> 8

\* The one instantiation of a non-generic item.
NoSub == [N |-> "-", M |-> "-", T |-> "-"]

Subs(sc) ==
    CASE sc = "none" -> {NoSub}
      [] sc = "sized" ->
            [N : ConstArgs, M : ConstArgs, T : SizedTypes]
      [] sc = "unsized" ->
            [N : ConstArgs, M : ConstArgs, T : AllTypes]

\* The arguments of the use Assert::<..> under substitution sub.
UseArgs(c, sc, sub) ==
    LET ua == HostArgs(c.use_args)
    IN  [k \in DOMAIN ua |->
            IF ua[k] \in Names(ScopeParams(sc)) THEN sub[ua[k]] ELSE ua[k]]

\* The value of impl parameter n when the impl is matched against
\* Assert::<args>.
ParamValue(c, args, n) ==
    LET ia == HostArgs(c.impl_args)
    IN  args[CHOOSE k \in DOMAIN ia : ia[k] = n]

EvalExpr(e, c, args) ==
    CASE e = "1 + 2 < 17" -> 1 + 2 < 17
      [] e = "45 * 25 < 3" -> 45 * 25 < 3
      [] e = "N != 0" -> ParamValue(c, args, "N") # 0
      [] e = "N > M" -> ParamValue(c, args, "N") > ParamValue(c, args, "M")
      [] e = "size_of::<T>() == 4" -> SizeOf(ParamValue(c, args, "T")) = 4

\* The value of a constant of type (): the unit value, or a panic.
Unit == [unit |-> TRUE, panic |-> "-"]

\* panic!(..): the message is the literal, and "explicit panic" without one.
Panic(toks) ==
    [unit |-> FALSE,
     panic |-> IF toks = <<>> THEN "explicit panic" ELSE toks[1]]

\* The initializer of the carrier's constant for the arguments args:
\* `if !(expr) { panic!(..) }`, or `panic!(..)` alone.
ConstValue(c, args) ==
    IF c.guard.some
    THEN IF c.guard.toks[1] = "!"
         THEN (IF ~EvalExpr(c.guard.toks[2], c, args) THEN Panic(c.panic_args)
               ELSE Unit)
         ELSE (IF EvalExpr(c.guard.toks[2], c, args) THEN Panic(c.panic_args)
               ELSE Unit)
    ELSE Panic(c.panic_args)

\* A constant is evaluated once per distinct argument list.
Evaluate(c, sc, sub) ==
    LET args == UseArgs(c, sc, sub)
    IN  [args |-> args, value |-> ConstValue(c, args)]

\* The host checks the emitted item in the scope of the invocation.
HostCheck ==
    /\ pc = "expanded"
    /\ \E sc \in Scopes :
          LET errs == HostErrors(code, sc)
          IN  /\ scope' = sc
              /\ hostErrs' = errs
              /\ pc' = IF errs = {} THEN "checked" ELSE "host_error"
    /\ UNCHANGED <<entry, generics, expression, message, lastItem, diag, code,
                   insts, dropped, consts, body>>

\* The enclosing item is instantiated with sub. The block static_assert
\* emits is part of the item's body, so its constant is evaluated; the
\* body of a destructor is not instantiated with the type.
Instantiate ==
    /\ pc = "checked"
    /\ Cardinality(insts) < MaxInsts
    /\ \E sub \in Subs(scope) \ insts :
          /\ insts' = insts \cup {sub}
          /\ consts' = IF code.form = "block"
                       THEN consts \cup {Evaluate(code, scope, sub)}
                       ELSE consts
    /\ UNCHANGED <<entry, pc, generics, expression, message, lastItem, diag,
                   code, scope, hostErrs, dropped, body>>

\* The destructor of instantiation sub is reached: its body is
\* instantiated, and the constant it uses is evaluated.
ReachDrop ==
    /\ pc = "checked"
    /\ code.form = "drop"
    /\ \E sub \in insts \ dropped :
          /\ dropped' = dropped \cup {sub}
          /\ consts' = consts \cup {Evaluate(code, scope, sub)}
    /\ UNCHANGED <<entry, pc, generics, expression, message, lastItem, diag,
                   code, scope, hostErrs, insts, body>>

(***************************************************************************)
(* Several static_assert invocations in one enclosing item, as in fie of   *)
(* tests.rs and baz of the crate-level examples. The macro is a function   *)
(* of its token stream: each invocation is parsed and expanded by the      *)
(* actions above from the same start, and its block joins the body of the  *)
(* enclosing item. The host then checks the body and instantiates it.      *)
(***************************************************************************)
\* The descriptors of the invocations in fie and baz: the parameters of the
\* enclosing item, declared as the item declares them.
ScopeItems == {<<"N", ":", "usize">>, <<"M", ":", "usize">>, <<"T">>}

\* One descriptor of the invocation being read.
InvokeListItem ==
    /\ Len(body) < MaxInvocations
    /\ ParseListItem
    /\ lastItem' \in ScopeItems

InvokeListEnd ==
    /\ Len(body) < MaxInvocations
    /\ ParseListEnd

\* The expressions of the invocations in foo, baz, spam and fie: those that
\* depend on a parameter of the enclosing item.
ScopeExprs == {"N != 0", "N > M", "size_of::<T>() == 4"}

InvokeExpand ==
    /\ Len(body) < MaxInvocations
    /\ StaticAssertExpand
    /\ expression' \in ScopeExprs

\* The expansion replaces the invocation in the body; the next invocation
\* starts from nothing of this one.
NextInvocation ==
    /\ entry = "static_assert"
    /\ pc = "expanded"
    /\ Len(body) < MaxInvocations
    /\ body' = Append(body, [generics |-> generics, expression |-> expression,
                             message |-> message, code |-> code])
    /\ pc' = "parsing"
    /\ generics' = <<>>
    /\ expression' = MissingExpr
    /\ message' = None
    /\ lastItem' = <<>>
    /\ code' = NoCode
    /\ UNCHANGED <<entry, diag, scope, hostErrs, insts, dropped, consts>>

\* The errors of the host on a body of several emitted items: those of
\* each item, and the name Assert defined twice where two carriers are
\* items of the same block.
BodyErrors(b, sc) ==
    UNION {HostErrors(b[k].code, sc) : k \in DOMAIN b}
    \cup (IF \E j, k \in DOMAIN b :
               j # k /\ b[j].code.form = "items" /\ b[k].code.form = "items"
          THEN {"duplicate_definition"} ELSE {})

\* The host checks the body of the enclosing item.
HostCheckBody ==
    /\ entry = "static_assert"
    /\ pc = "parsing"
    /\ generics = <<>>
    /\ body # <<>>
    /\ \E sc \in Scopes :
          LET errs == BodyErrors(body, sc)
          IN  /\ scope' = sc
              /\ hostErrs' = errs
              /\ pc' = IF errs = {} THEN "checked" ELSE "host_error"
    /\ UNCHANGED <<entry, generics, expression, message, lastItem, diag, code,
                   insts, dropped, consts, body>>

\* The constant of the carrier at site k, a constant of its own type:
\* the site, and [args, value].
EvaluateAt(k, c, sc, sub) == <<k, Evaluate(c, sc, sub)>>

\* The enclosing item is instantiated with sub: the constant of every
\* block of its body is evaluated.
InstantiateBody ==
    /\ pc = "checked"
    /\ body # <<>>
    /\ Cardinality(insts) < MaxInsts
    /\ \E sub \in Subs(scope) \ insts :
          /\ insts' = insts \cup {sub}
          /\ consts' = consts \cup {EvaluateAt(k, body[k].code, scope, sub) :
                                        k \in DOMAIN body}
    /\ UNCHANGED <<entry, pc, generics, expression, message, lastItem, diag,
                   code, scope, hostErrs, dropped, body>>

(***************************************************************************)
(* The specification.                                                      *)
(***************************************************************************)
Init ==
    /\ entry \in Entries
    /\ pc = "parsing"
    /\ generics = <<>>
    /\ expression = MissingExpr
    /\ message = None
    /\ lastItem = <<>>
    /\ diag = "-"
    /\ code = NoCode
    /\ scope = "none"
    /\ hostErrs = {}
    /\ insts = {}
    /\ dropped = {}
    /\ consts = {}
    /\ body = <<>>

Next ==
    \/ ParseListItem
    \/ ParseListEnd
    \/ StaticAssertExpand
    \/ ExplicitlyDrop
    \/ HostCheck
    \/ Instantiate
    \/ ReachDrop

Spec == Init /\ [][Next]_vars

\* The build of an item that holds static_assert invocations only.
InitSeveral ==
    /\ Init
    /\ entry = "static_assert"

NextSeveral ==
    \/ InvokeListItem
    \/ InvokeListEnd
    \/ InvokeExpand
    \/ NextInvocation
    \/ HostCheckBody
    \/ InstantiateBody

SpecSeveral == InitSeveral /\ [][NextSeveral]_vars

(***************************************************************************)
(* What the claims are stated with.                                        *)
(***************************************************************************)
\* The truth of an expression for a substitution of the enclosing scope's
\* parameters, read off the expression as written.
Holds(e, sub) ==
    CASE e = "1 + 2 < 17" -> TRUE
      [] e = "45 * 25 < 3" -> FALSE
      [] e = "N != 0" -> sub.N > 0
      [] e = "N > M" -> sub.M < sub.N
      [] e = "size_of::<T>() == 4" -> sub.T = "u32"

\* The compile-time failures of the build: the constants that panicked.
Failures == {c \in consts : ~c.value.unit}

\* The values substitution sub gives the declared descriptors, in order.
Declared(sub) == [k \in DOMAIN generics |-> sub[generics[k].ident]]

\* Instantiation sub fails: the constant of its own arguments panicked.
Fails(sub) == \E c \in Failures : c.args = Declared(sub)

Emitted == pc \in {"expanded", "host_error", "checked"}

(***************************************************************************)
(* C1. In a static_assert that declares typed constants only, inside an    *)
(* item generic over them, an instantiation fails if and only if the       *)
(* expression is false for its own values, and there are exactly as many   *)
(* failures as distinct failing combinations of the declared constants.    *)
(***************************************************************************)
C1_PerInstantiation ==
    (/\ entry = "static_assert"
     /\ pc = "checked"
     /\ generics # <<>>
     /\ \A k \in DOMAIN generics : generics[k].kind = "Const")
    => /\ \A sub \in insts : Fails(sub) <=> ~Holds(expression, sub)
       /\ Cardinality(Failures)
            = Cardinality({Declared(sub) :
                              sub \in {i \in insts : ~Holds(expression, i)}})

\* Two instantiations with different failing values of (N, M) have failed
\* separately.
C1_Witness ==
    /\ entry = "static_assert"
    /\ pc = "checked"
    /\ generics = <<ConstGeneric("N", "usize"), ConstGeneric("M", "usize")>>
    /\ expression = "N > M"
    /\ \E a, b \in insts : Declared(a) # Declared(b) /\ Fails(a) /\ Fails(b)
    /\ Cardinality(Failures) = 2

(***************************************************************************)
(* C2. A static_assert without a message whose expression is false fails   *)
(* with the message "Static assert failed.".                               *)
(***************************************************************************)
C2_DefaultMessage ==
    (entry = "static_assert" /\ ~message.some)
    => \A c \in Failures : c.value.panic = "Static assert failed."

(***************************************************************************)
(* C3. A descriptor list with the same identifier twice is rejected at     *)
(* parse time, and no carrier type is emitted. (As claimed.)               *)
(***************************************************************************)
HasDuplicate(gs) ==
    \E j, k \in DOMAIN gs : j # k /\ gs[j].ident = gs[k].ident

WellFormed(item) == GenericParse(item).ok /\ GenericParse(item).rest = <<>>

Toks(item) == {item[k] : k \in DOMAIN item}

UnsizedAfterColon(item) ==
    /\ Len(item) >= 3
    /\ item[1] \in IdentToks
    /\ item[2] = ":"
    /\ item[3] = "?"

C4_UnsizedSyntax ==
    /\ UnsizedAfterColon(lastItem)
         => /\ pc = "parse_error"
            /\ diag = "unsized_syntax"
            /\ generics = <<>>
            /\ code = NoCode
    /\ {":", "?"} \subseteq Toks(lastItem) => pc = "parse_error"
    /\ \A k \in DOMAIN generics :
          /\ generics[k].kind = "Const" => generics[k].ty \in IdentToks
          /\ generics[k].kind # "Const" => generics[k].ty = "-"

C4_Witness ==
    /\ entry = "explicitly_drop"
    /\ pc = "parse_error"
    /\ lastItem = <<"T", ":", "?">>
    /\ diag = "unsized_syntax"

(***************************************************************************)
(* C5. A static_assert whose expression mentions a generic parameter that  *)
(* the descriptor list does not declare does not compile, and no constant  *)
(* is evaluated: the truth of the expression plays no part.                *)
(***************************************************************************)
Refs(e) == ValueRefs(e) \cup SizedTypeRefs(e)

DeclaredIdents == {generics[k].ident : k \in DOMAIN generics}

C5_UndeclaredGeneric ==
    (/\ entry = "static_assert"
     /\ pc \in {"host_error", "checked"}
     /\ Refs(expression) \ DeclaredIdents # {})
    => /\ pc = "host_error"
       /\ "outer_generic_parameter" \in hostErrs
       /\ insts = {}
       /\ consts = {}

C5_Witness ==
    /\ entry = "static_assert"
    /\ pc = "host_error"
    /\ scope = "sized"
    /\ generics = <<>>
    /\ expression = "N != 0"
    /\ hostErrs = {"outer_generic_parameter"}

(***************************************************************************)
(* C6. explicitly_drop with no descriptor, or with a second descriptor     *)
(* after a comma, is a parse error and nothing is evaluated; a destructor  *)
(* body is emitted only for an input of exactly one descriptor.            *)
(***************************************************************************)
C6_ExactlyOneDescriptor ==
    entry = "explicitly_drop"
    => /\ Emitted
            => /\ code.form = "drop"
               /\ Len(generics) = 1
               /\ GenericParse(lastItem) = ParseOk(generics[1], <<>>)
       /\ (pc # "parsing" /\ lastItem = <<>>) => pc = "parse_error"
       /\ (lastItem # <<>> /\ lastItem[Len(lastItem)] = ",")
            => pc = "parse_error" /\ diag = "unexpected_token"
       /\ pc = "parse_error"
            => code = NoCode /\ insts = {} /\ dropped = {} /\ consts = {}

C6_Witness ==
    /\ entry = "explicitly_drop"
    /\ pc = "parse_error"
    /\ lastItem = <<"T", ",">>
    /\ diag = "unexpected_token"
    /\ code = NoCode

MarkerFields(gs) ==
    LET typeLike == SelectSeq(gs, LAMBDA g : g.kind \in {"Type", "UnsizedType"})
    IN  [k \in DOMAIN typeLike |-> <<typeLike[k].ident, ",">>]

C8_MarkerFields ==
    (entry = "static_assert" /\ Emitted)
    => /\ code.fields = MarkerFields(generics)
       /\ (\A k \in DOMAIN generics : generics[k].kind = "Const")
            => code.fields = <<>>
       /\ pc # "expanded"
            => /\ "unused_parameter" \notin hostErrs
               /\ (/\ Refs(expression) = {}
                   /\ \/ generics = <<TypeGeneric("T")>> /\ scope = "sized"
                      \/ generics = <<UnsizedTypeGeneric("T")>>
                         /\ scope # "none")
                    => pc = "checked"

C8_Witness ==
    /\ entry = "static_assert"
    /\ pc = "checked"
    /\ generics = <<TypeGeneric("T")>>
    /\ expression = "1 + 2 < 17"
    /\ code.fields = <<<<"T", ",">>>>
    /\ insts # {}
    /\ Failures = {}

(***************************************************************************)
(* C9. An UnsizedType descriptor is declared with the unsized-allowed      *)
(* bound in the struct and in the impl header alike, and is accepted for   *)
(* a type parameter that may be unsized, which is then instantiated with   *)
(* an unsized type; a Type descriptor for such a parameter is an error.    *)
(***************************************************************************)
C9_UnsizedBound ==
    Emitted
    => /\ code.impl_params = code.struct_params
       /\ LET sp == HostParams(code.struct_params)
          IN  /\ Len(sp) = Len(generics)
              /\ \A k \in DOMAIN sp :
                    sp[k].kind = "unsized" <=> generics[k].kind = "UnsizedType"
       /\ pc # "expanded"
            => /\ (scope = "unsized"
                   /\ \E k \in DOMAIN generics : generics[k] = TypeGeneric("T"))
                    => /\ pc = "host_error"
                       /\ "trait_bounds_not_satisfied" \in hostErrs
               /\ (/\ scope = "unsized"
                   /\ generics = <<UnsizedTypeGeneric("T")>>
                   /\ Refs(expression) = {})
                    => pc = "checked"
       /\ \A sub \in insts :
             sub.T = "str"
             => \A k \in DOMAIN generics :
                   generics[k].ident = "T" => generics[k].kind = "UnsizedType"

C9_Witness ==
    /\ pc = "checked"
    /\ generics = <<UnsizedTypeGeneric("T")>>
    /\ \E sub \in insts :
          /\ sub.T = "str"
          /\ \E c \in consts : c.args = <<"str">>

(***************************************************************************)
(* C10. A static_assert with an empty descriptor list and an expression    *)
(* over no generic parameter compiles when the expression is true, its     *)
(* constant being the unit value, and fails when it is false, with exactly *)
(* the supplied message when there is one.                                 *)
(***************************************************************************)
C10_ZeroGenerics ==
    (/\ entry = "static_assert"
     /\ pc \in {"host_error", "checked"}
     /\ generics = <<>>
     /\ Refs(expression) = {})
    => /\ pc = "checked"
       /\ insts # {}
            => /\ \E v \in {c.value : c \in consts} :
                    consts = {[args |-> <<>>, value |-> v]}
               /\ \A c \in consts :
                    /\ c.value.unit <=> Holds(expression, NoSub)
                    /\ (~c.value.unit /\ message.some)
                         => c.value.panic = message.toks[1]

C10_Witness ==
    /\ entry = "static_assert"
    /\ pc = "checked"
    /\ generics = <<>>
    /\ expression = "45 * 25 < 3"
    /\ message = Some(<<"This is the error message!">>)
    /\ consts = {[args |-> <<>>,
                  value |-> [unit |-> FALSE,
                             panic |-> "This is the error message!"]]}

(***************************************************************************)
(* C11. Several static_assert invocations in one enclosing item do not     *)
(* interfere: the body is rejected with the errors of its invocations      *)
(* taken alone and no other, and in an accepted body an instantiation      *)
(* fails at an invocation exactly when that invocation's own expression    *)
(* is false for it, with that invocation's own message, for the values of  *)
(* that invocation's own descriptors.                                      *)
(***************************************************************************)
\* The values substitution sub gives the descriptors of invocation k.
DeclaredAt(k, sub) ==
    [j \in DOMAIN body[k].generics |-> sub[body[k].generics[j].ident]]

\* The text instantiation sub fails with at invocation k, if it fails there.
FailuresAt(k, sub) ==
    {c[2].value.panic : c \in {f \in consts : /\ f[1] = k
                                                 /\ ~f[2].value.unit
                                                 /\ f[2].args = DeclaredAt(k, sub)}}

C11_NoInterference ==
    (/\ body # <<>>
     /\ pc \in {"checked", "host_error"})
    => /\ hostErrs = UNION {HostErrors(body[k].code, scope) : k \in DOMAIN body}
       /\ pc = "checked" =>
             /\ \A c \in consts : c[1] \in DOMAIN body
             /\ \A sub \in insts, k \in DOMAIN body :
                   FailuresAt(k, sub) =
                       IF Holds(body[k].expression, sub) THEN {}
                       ELSE {Panic(body[k].message.toks).panic}

\* fie: (N, M) N > M and (T) size_of T == 4 with different messages, one
\* instantiation failing at the first only and one at the second only.
C11_Witness ==
    /\ pc = "checked"
    /\ Len(body) = 2
    /\ body[1].expression = "N > M"
    /\ body[2].expression = "size_of::<T>() == 4"
    /\ body[1].message = Some(<<"N must be greater than M!">>)
    /\ body[2].message = Some(<<"This is the error message!">>)
    /\ \E s1, s2 \in insts :
          /\ FailuresAt(1, s1) = {"N must be greater than M!"}
          /\ FailuresAt(2, s1) = {}
          /\ FailuresAt(1, s2) = {}
          /\ FailuresAt(2, s2) = {"This is the error message!"}

====
